---- MODULE Spec2Model ----
(***************************************************************************)
(* Model of heavyai.connection.Connection: the load pipeline (load_table,  *)
(* load_table_rowwise, load_table_columnar, load_table_arrow,              *)
(* create_table) and the IPC result retrieval and release protocol         *)
(* (select_ipc, select_ipc_gpu, deallocate_ipc, deallocate_ipc_gpu).       *)
(*                                                                         *)
(* One action models one whole public method call.  The RPCs and the local *)
(* resource operations a call performs are recorded, in program order, in  *)
(* call.events, so that claims about what a call issues and in which order *)
(* are state predicates over the state a call leaves behind.               *)
(***************************************************************************)
EXTENDS Integers, Sequences, FiniteSets, TLC

(***************************************************************************)
(* Bounds of the model.                                                    *)
(***************************************************************************)
MaxDesc == 2        \* queries executed (descriptors issued) per behaviour
MaxDealloc == 2     \* deallocate_df RPCs issued per descriptor
MaxDevice == 1      \* device ids are 0..MaxDevice
MaxCols == 2        \* column counts are 1..MaxCols
MaxRows == 2        \* a source of the load pipeline has 0..MaxRows rows
MaxChunk == 4       \* chunk_size_bytes is 0..MaxChunk
MaxStored == 1      \* a load is tried while the table holds < MaxStored rows
MaxBatchRows == 3   \* a source of the chunked loads has 0..MaxBatchRows rows
MaxCost == 3        \* there, one row costs 1..MaxCost serialized bytes

VARIABLES
    tables,     \* server: table name -> number of columns, NoTable if absent
    stored,     \* server: table name -> the rows loaded into it, in order
    source,     \* application: the tabular data it holds and loads
    descs,      \* server: the result descriptors issued, by id 1..Len(descs)
    attached,   \* client: ids of the segments currently attached (shmat'ed)
    dfs,        \* client: the tables fetches returned, by handle 1..Len(dfs)
    self_tdf,   \* Connection._tdf: the descriptor of the last query
    call        \* the last call: its arguments, events, outcome and result

vars == <<tables, stored, source, descs, attached, dfs, self_tdf, call>>

(***************************************************************************)
(* Values.                                                                 *)
(***************************************************************************)
NoTable == 0        \* a table name the server does not know
NoTdf == 0          \* no descriptor: a frame without get_tdf, or _tdf unset
NoDf == 0           \* no table returned; also the handle of a plain frame
NotGiven == -1      \* an optional argument the caller left out

TableNames == {"t1", "t2"}
DeviceIds == 0..MaxDevice

\* TDeviceType of heavydb.common.ttypes
CPU == "CPU"
GPU == "GPU"

\* TArrowTransport, and a value that is neither of its two members; GPU_IPC
\* is the transport of a result sql_execute_gdf leaves in GPU memory
GPU_IPC == "GPU_IPC"
WIRE == "WIRE"
SHARED_MEMORY == "SHARED_MEMORY"
OTHER_TRANSPORT == "OTHER"
Transports == {WIRE, SHARED_MEMORY, OTHER_TRANSPORT}

\* Outcomes of a call: normal return, or the exception that left it
Ok == "ok"
InvalidCreate == "ValueError: Unexpected value for create"
InvalidMethod == "TypeError: Method must be one of"
UnknownType == "TypeError: Unknown type"
SchemaMismatch == "ValueError: Number of columns in dataframe"
UnsupportedTransport == "RuntimeError: transport type is not supported"
NoDescriptor == "AttributeError: get_tdf"
DecodeError == "ArrowInvalid"
SerializeError == "AttributeError: schema"
ServerError == "TException"
CudfMissing == "ImportError: cudf"

(***************************************************************************)
(* Events of a call: RPCs to self._client and local resource operations.   *)
(***************************************************************************)
Event(name, tab, tdf, dtype, dev, n) ==
    [ev |-> name, tab |-> tab, tdf |-> tdf, device_type |-> dtype,
     device_id |-> dev, n |-> n, rows |-> <<>>]

\* A load RPC: the rows it carries, in the order it carries them
LoadEvent(name, tab, rows) ==
    [Event(name, tab, NoTdf, "", 0, Len(rows)) EXCEPT !.rows = rows]

RpcGetTables == Event("get_tables", "", NoTdf, "", 0, 0)
RpcCreateTable(t, ncols) == Event("create_table", t, NoTdf, "", 0, ncols)
RpcGetTableDetails(t) == Event("get_table_details", t, NoTdf, "", 0, 0)
RpcLoadTable(t, rows) == LoadEvent("load_table", t, rows)
RpcLoadColumnar(t, rows) == LoadEvent("load_table_binary_columnar", t, rows)
RpcLoadArrow(t, rows) == LoadEvent("load_table_binary_arrow", t, rows)
RpcExecuteDf(id, dev) == Event("sql_execute_df", "", id, CPU, dev, 0)
RpcExecuteGdf(id, dev) == Event("sql_execute_gdf", "", id, GPU, dev, 0)
RpcDeallocateDf(id, dtype, dev) == Event("deallocate_df", "", id, dtype, dev, 0)
EvLoadBuffer(id) == Event("load_buffer", "", id, "", 0, 0)
EvDecode(id) == Event("to_pandas", "", id, "", 0, 0)
EvSetTdf(id) == Event("set_tdf", "", id, "", 0, 0)
EvShmdt(id) == Event("shmdt", "", id, "", 0, 0)

LoadRpcs == {"load_table", "load_table_binary_columnar", "load_table_binary_arrow"}

\* The events of a sequence with one of the given names, in order
RECURSIVE Pick(_, _)
Pick(evs, names) ==
    IF evs = <<>> THEN <<>>
    ELSE IF Head(evs).ev \in names
         THEN <<Head(evs)>> \o Pick(Tail(evs), names)
         ELSE Pick(Tail(evs), names)

Count(evs, names) == Len(Pick(evs, names))

\* Positions of the events of a sequence with one of the given names
Positions(evs, names) == {i \in 1..Len(evs) : evs[i].ev \in names}

(***************************************************************************)
(* Sources of a load, and the record of a call.                            *)
(***************************************************************************)
\* What isinstance() tells load_table about its data argument
DataFrame == "pandas.DataFrame"
ArrowTable == "pyarrow.Table"
RecordBatch == "pyarrow.RecordBatch"
Tuples == "list of tuples"
OtherIterable == "other iterable"
Kinds == {DataFrame, ArrowTable, RecordBatch, Tuples, OtherIterable}

NoData == [kind |-> "", ncols |-> 0, rows |-> <<>>]

NoCall ==
    [op |-> "none", table |-> "", data |-> NoData, method |-> "",
     create |-> "", chunk_size_bytes |-> 0, transport_method |-> "",
     device_id |-> NotGiven, release_memory |-> FALSE, df |-> NoDf,
     fail_at |-> 0, tdf |-> NoTdf, ret |-> NoDf, events |-> <<>>,
     outcome |-> Ok]

\* The sources of the load pipeline: a kind, a column count, and the rows
\* in order, each row given by its serialized cost in bytes.  Here every
\* value takes one byte, so a row costs as many bytes as it has columns.
Sources ==
    { [kind |-> k, ncols |-> nc, rows |-> [i \in 1..nr |-> nc]] :
        k \in Kinds, nc \in 1..MaxCols, nr \in 0..MaxRows }

Sum(seq) ==
    LET RECURSIVE S(_)
        S(i) == IF i = 0 THEN 0 ELSE seq[i] + S(i - 1)
    IN  S(Len(seq))

\* The rows of a source, named by their positions in it
RowIds(data) == [i \in 1..Len(data.rows) |-> i]

\* The serialized size of a batch of rows of a source
BatchCost(data, batch) == Sum([i \in 1..Len(batch) |-> data.rows[batch[i]]])

\* The sequences over S of length n
RECURSIVE SeqsOf(_, _)
SeqsOf(S, n) ==
    IF n = 0 THEN {<<>>}
    ELSE {Append(q, x) : q \in SeqsOf(S, n - 1), x \in S}

\* The sources of the chunked loads: frames of one column whose rows differ
\* in serialized size
ChunkSources ==
    {[kind |-> DataFrame, ncols |-> 1, rows |-> r] :
        r \in UNION {SeqsOf(1..MaxCost, n) : n \in 0..MaxBatchRows}}

Methods == {"infer", "arrow", "columnar", "rows", "bogus"}
Creates == {"infer", "True", "False", "bogus"}

(***************************************************************************)
(* The load pipeline.  The operators take and return a context             *)
(* c = [tables, stored, fail_at, events, outcome]: the server's tables and  *)
(* their rows, the load request of this call the server will fail (0 for   *)
(* none), and the events and outcome of the call in progress.  The server  *)
(* rejects the creation of a table that exists and any request that names  *)
(* a table that does not; a load it accepts appends its rows to the table. *)
(***************************************************************************)
Max(a, b) == IF a >= b THEN a ELSE b

\* build_row_desc(data): one column description per column of the source
build_row_desc(data) == data.ncols

\* The rows of a source cut into consecutive slices of per rows each
RECURSIVE Slices(_, _)
Slices(rows, per) ==
    IF Len(rows) <= per THEN <<rows>>
    ELSE <<SubSeq(rows, 1, per)>> \o Slices(SubSeq(rows, per + 1, Len(rows)), per)

\* _pandas_loaders.build_input_columnar: the batches of a columnar load.  A
\* budget of 0 gives one batch; otherwise a batch holds
\* max(1, floor(budget / average row cost)) rows.
build_input_columnar(data, chunk_size_bytes) ==
    IF chunk_size_bytes = 0 \/ data.rows = <<>>
    THEN <<RowIds(data)>>
    ELSE Slices(RowIds(data),
                Max(1, (chunk_size_bytes * Len(data.rows)) \div Sum(data.rows)))

\* _serialize_arrow_payload accepts a DataFrame, a RecordBatch or a Table
ArrowSerializable(data) == data.kind \in {DataFrame, RecordBatch, ArrowTable}

create_table(c, table_name, data) ==
    LET c1 == [c EXCEPT !.events =
                   Append(@, RpcCreateTable(table_name, build_row_desc(data)))]
    IN  IF c.tables[table_name] # NoTable
        THEN [c1 EXCEPT !.outcome = ServerError]
        ELSE [c1 EXCEPT !.tables[table_name] = build_row_desc(data)]

\* self.get_table_details(table_name), then k(c) with the details in hand
get_table_details(c, table_name) ==
    LET c1 == [c EXCEPT !.events = Append(@, RpcGetTableDetails(table_name))]
    IN  IF c.tables[table_name] = NoTable
        THEN [c1 EXCEPT !.outcome = ServerError]
        ELSE c1

\* One load RPC; the server rejects it when the table does not exist or
\* when it is the request of this call that is to fail
client_load(c, table_name, rpc) ==
    LET c1 == [c EXCEPT !.events = Append(@, rpc)]
    IN  IF \/ c.tables[table_name] = NoTable
           \/ Count(c1.events, LoadRpcs) = c.fail_at
        THEN [c1 EXCEPT !.outcome = ServerError]
        ELSE [c1 EXCEPT !.stored[table_name] = @ \o rpc.rows]

\* The columns of a source, named apart from its rows
ColumnIds(data) == [j \in 1..data.ncols |-> 0 - j]

\* What "for row in data" yields: the rows of a sequence of tuples or of
\* another iterable of rows, in order; the column labels of a DataFrame and
\* the columns of an Arrow table or record batch
Iterate(data) ==
    IF data.kind \in {Tuples, OtherIterable}
    THEN RowIds(data)
    ELSE ColumnIds(data)

\* data.itertuples(index=preserve_index, name=None): the rows of the frame
\* as tuples, in order
itertuples(data) == [data EXCEPT !.kind = Tuples]

\* _build_input_rows(data): one row value per item of the iteration of data
build_input_rows(data) == Iterate(data)

load_table_rowwise(c, table_name, data) ==
    client_load(c, table_name,
                RpcLoadTable(table_name, build_input_rows(data)))

\* for cols in input_cols: load_table_binary_columnar(...), until one fails
\* SendBatches with a fault: the loop runs over the batches last to first
RECURSIVE SendBatches_last_first(_, _, _)
SendBatches_last_first(c, table_name, batches) ==
    IF batches = <<>> \/ c.outcome # Ok THEN c
    ELSE SendBatches_last_first(
             client_load(c, table_name,
                         RpcLoadColumnar(table_name, batches[Len(batches)])),
             table_name, SubSeq(batches, 1, Len(batches) - 1))

\* SendBatches with a fault: a failed request does not end the loop
RECURSIVE SendBatches_keeps_going(_, _, _)
SendBatches_keeps_going(c, table_name, batches) ==
    IF batches = <<>> THEN c
    ELSE SendBatches_keeps_going(
             client_load(c, table_name,
                         RpcLoadColumnar(table_name, Head(batches))),
             table_name, Tail(batches))

\* SendBatches with a fault: the loop stops one batch short when there are
\* several
RECURSIVE SendBatches_drops_last(_, _, _)
SendBatches_drops_last(c, table_name, batches) ==
    IF Len(batches) = 0 \/ c.outcome # Ok THEN c
    ELSE LET c1 == client_load(c, table_name,
                               RpcLoadColumnar(table_name, Head(batches)))
         IN  IF Len(batches) = 2 THEN c1
             ELSE SendBatches_drops_last(c1, table_name, Tail(batches))

RECURSIVE SendBatches(_, _, _)
SendBatches(c, table_name, batches) ==
    IF batches = <<>> \/ c.outcome # Ok THEN c
    ELSE SendBatches(
             client_load(c, table_name,
                         RpcLoadColumnar(table_name, Head(batches))),
             table_name, Tail(batches))

\* load_table_columnar with a fault: the column counts are not compared
load_table_columnar_unchecked(c, table_name, data, chunk_size_bytes) ==
    IF data.kind # DataFrame
    THEN [c EXCEPT !.outcome = UnknownType]
    ELSE LET c1 == get_table_details(c, table_name)
         IN  IF c1.outcome # Ok THEN c1
             ELSE SendBatches(c1, table_name,
                      build_input_columnar(data, chunk_size_bytes))

\* load_table_columnar with a fault: a budget of 0 is replaced by a default
\* budget of one byte
load_table_columnar_default_budget(c, table_name, data, chunk_size_bytes) ==
    IF data.kind # DataFrame
    THEN [c EXCEPT !.outcome = UnknownType]
    ELSE LET c1 == get_table_details(c, table_name)
         IN  IF c1.outcome # Ok THEN c1
             ELSE IF c1.tables[table_name] # data.ncols
                  THEN [c1 EXCEPT !.outcome = SchemaMismatch]
                  ELSE SendBatches(c1, table_name,
                           build_input_columnar(data,
                               Max(1, chunk_size_bytes)))

load_table_columnar(c, table_name, data, chunk_size_bytes) ==
    IF data.kind # DataFrame
    THEN [c EXCEPT !.outcome = UnknownType]
    ELSE LET c1 == get_table_details(c, table_name)
         IN  IF c1.outcome # Ok THEN c1
             ELSE IF c1.tables[table_name] # data.ncols
                  THEN [c1 EXCEPT !.outcome = SchemaMismatch]
                  ELSE SendBatches(c1, table_name,
                           build_input_columnar(data, chunk_size_bytes))

load_table_arrow(c, table_name, data) ==
    LET c1 == get_table_details(c, table_name)
    IN  IF c1.outcome # Ok THEN c1
        ELSE IF ~ArrowSerializable(data)
             THEN [c1 EXCEPT !.outcome = SerializeError]
             ELSE client_load(c1, table_name,
                              RpcLoadArrow(table_name, RowIds(data)))

\* load_table_create with a fault: create=True consults the table list
\* like create='infer'
load_table_create_always_infers(c, table_name, data, create) ==
    LET c1 == [c EXCEPT !.events = Append(@, RpcGetTables)]
    IN  IF create # "False" /\ c.tables[table_name] = NoTable
        THEN create_table(c1, table_name, data)
        ELSE IF create = "False" THEN c ELSE c1

\* Lines 99-106 of load_table: the creation policy
load_table_create(c, table_name, data, create) ==
    LET c1 == IF create = "infer"
              THEN [c EXCEPT !.events = Append(@, RpcGetTables)]
              ELSE c
        do_create == IF create = "infer"
                     THEN c.tables[table_name] = NoTable
                     ELSE create = "True"
    IN  IF do_create THEN create_table(c1, table_name, data) ELSE c1

\* load_table_dispatch with a fault: method='infer' reaches the columnar
\* branch for a DataFrame
load_table_dispatch_columnar_first(c, table_name, data, method) ==
    IF method = "infer" /\ data.kind = DataFrame
    THEN load_table_columnar(c, table_name, data, 0)
    ELSE IF method = "infer" /\ data.kind \in {ArrowTable, RecordBatch}
    THEN load_table_arrow(c, table_name, data)
    ELSE IF method = "arrow"
    THEN load_table_arrow(c, table_name, data)
    ELSE IF method = "columnar"
    THEN load_table_columnar(c, table_name, data, 0)
    ELSE IF method \notin {"infer", "rows"}
    THEN [c EXCEPT !.outcome = InvalidMethod]
    ELSE load_table_rowwise(c, table_name,
             IF data.kind = DataFrame THEN itertuples(data) ELSE data)

\* Lines 108-139 of load_table: the choice of the strategy and the load
load_table_dispatch(c, table_name, data, method) ==
    IF method = "infer" /\ data.kind \in {DataFrame, ArrowTable, RecordBatch}
    THEN load_table_arrow(c, table_name, data)
    ELSE IF method = "arrow"
    THEN load_table_arrow(c, table_name, data)
    ELSE IF method = "columnar"
    THEN load_table_columnar(c, table_name, data, 0)
    ELSE IF method \notin {"infer", "rows"}
    THEN [c EXCEPT !.outcome = InvalidMethod]
    ELSE load_table_rowwise(c, table_name,
             IF data.kind = DataFrame THEN itertuples(data) ELSE data)

\* load_table with a fault: a call that created the table returns without
\* loading
load_table_returns_after_create(c, table_name, data, method, create) ==
    IF create \notin {"infer", "True", "False"}
    THEN [c EXCEPT !.outcome = InvalidCreate]
    ELSE LET c1 == load_table_create(c, table_name, data, create)
         IN  IF c1.outcome # Ok \/ c1.tables # c.tables THEN c1
             ELSE load_table_dispatch(c1, table_name, data, method)

load_table(c, table_name, data, method, create) ==
    IF create \notin {"infer", "True", "False"}
    THEN [c EXCEPT !.outcome = InvalidCreate]
    ELSE LET c1 == load_table_create(c, table_name, data, create)
         IN  IF c1.outcome # Ok THEN c1
             ELSE load_table_dispatch(c1, table_name, data, method)

(***************************************************************************)
(* IPC result retrieval and release.  The operators take and return a      *)
(* context c = [descs, attached, dfs, events, outcome, ret]: the server's  *)
(* descriptors, the client's attachments and frames, and the events,       *)
(* outcome and result of the call in progress.                             *)
(***************************************************************************)
DefaultDeviceId == 0

\* A descriptor (TDataFrame) as the server issues it for one query
NewDesc(dtype, dev, transport) ==
    [device_type |-> dtype, device_id |-> dev, transport |-> transport,
     deallocs |-> 0]

\* df.get_tdf(): the descriptor set_tdf stored on the frame; a frame no
\* fetch tagged has no get_tdf attribute
get_tdf(frames, df) ==
    IF df \in 1..Len(frames) THEN frames[df].tdf ELSE NoTdf

\* self._client.deallocate_df(session, df=tdf, device_type, device_id)
client_deallocate_df(c, tdf, dtype, dev) ==
    [c EXCEPT !.events = Append(@, RpcDeallocateDf(tdf, dtype, dev)),
              !.descs[tdf].deallocs = @ + 1]

\* The device id a release sends: the argument, or its default
EffectiveDeviceId(device_id) ==
    IF device_id = NotGiven THEN DefaultDeviceId ELSE device_id

\* deallocate_ipc_gpu with a fault: a frame without a tag is released too,
\* with no descriptor in the request
deallocate_ipc_gpu_untagged(c, df, device_id) ==
    LET tdf == get_tdf(c.dfs, df)
    IN  IF tdf = NoTdf
        THEN [c EXCEPT !.events =
                  Append(@, RpcDeallocateDf(NoTdf, GPU,
                                            EffectiveDeviceId(device_id)))]
        ELSE client_deallocate_df(c, tdf, GPU, EffectiveDeviceId(device_id))

deallocate_ipc_gpu(c, df, device_id) ==
    LET tdf == get_tdf(c.dfs, df)
    IN  IF tdf = NoTdf
        THEN [c EXCEPT !.outcome = NoDescriptor]
        ELSE client_deallocate_df(c, tdf, GPU, EffectiveDeviceId(device_id))

\* deallocate_ipc with a fault: the release sends the descriptor of the
\* connection's last query (self._tdf), not the one the frame is tagged with
deallocate_ipc_last_descriptor(c, df, device_id) ==
    LET tdf == get_tdf(c.dfs, df)
    IN  IF tdf = NoTdf
        THEN [c EXCEPT !.outcome = NoDescriptor]
        ELSE client_deallocate_df(c, Len(c.descs), CPU,
                                  EffectiveDeviceId(device_id))

\* deallocate_ipc with a fault: the release sends the GPU device kind
deallocate_ipc_sends_gpu(c, df, device_id) ==
    LET tdf == get_tdf(c.dfs, df)
    IN  IF tdf = NoTdf
        THEN [c EXCEPT !.outcome = NoDescriptor]
        ELSE client_deallocate_df(c, tdf, GPU, EffectiveDeviceId(device_id))

deallocate_ipc(c, df, device_id) ==
    LET tdf == get_tdf(c.dfs, df)
    IN  IF tdf = NoTdf
        THEN [c EXCEPT !.outcome = NoDescriptor]
        ELSE client_deallocate_df(c, tdf, CPU, EffectiveDeviceId(device_id))

\* _parse_tdf_gpu(tdf): the GPU frame, tagged with its descriptor
parse_tdf_gpu(c, id) ==
    [c EXCEPT !.dfs = Append(@, [tdf |-> id]),
              !.events = Append(@, EvDecode(id)),
              !.ret = Len(c.dfs) + 1]

\* has_cudf: the cudf package can be imported (lines 316-322); without it
\* the call raises before any RPC
select_ipc_gpu(c, device_id, release_memory, has_cudf) ==
    LET id == Len(c.descs) + 1
        c1 == [c EXCEPT !.descs = Append(@, NewDesc(GPU, device_id, GPU_IPC)),
                        !.events = Append(@, RpcExecuteGdf(id, device_id))]
        c2 == parse_tdf_gpu(c1, id)
    IN  IF ~has_cudf
        THEN [c EXCEPT !.outcome = CudfMissing]
        ELSE IF release_memory
             THEN deallocate_ipc_gpu(c2, c2.ret, NotGiven)
             ELSE c2

\* The WIRE branch: decode the inline buffer and return the frame
select_ipc_wire(c, id, decodes) ==
    IF ~decodes
    THEN [c EXCEPT !.outcome = DecodeError]
    ELSE [c EXCEPT !.dfs = Append(@, [tdf |-> NoTdf]),
                   !.events = Append(@, EvDecode(id)),
                   !.ret = Len(c.dfs) + 1]

\* select_ipc_shm with a fault: the descriptor is released on the server
\* before the segment is detached
select_ipc_shm_release_first(c, id, release_memory, decodes) ==
    LET c1 == [c EXCEPT !.attached = @ \cup {id},
                        !.events = Append(@, EvLoadBuffer(id))]
        c2 == [c1 EXCEPT !.dfs = Append(@, [tdf |-> id]),
                         !.events = @ \o <<EvDecode(id), EvSetTdf(id)>>,
                         !.ret = Len(c.dfs) + 1]
        c3 == IF release_memory
              THEN deallocate_ipc(c2, c2.ret, NotGiven)
              ELSE c2
    IN  IF ~decodes
        THEN [c1 EXCEPT !.outcome = DecodeError]
        ELSE [c3 EXCEPT !.attached = @ \ {id},
                        !.events = Append(@, EvShmdt(id))]

\* The SHARED_MEMORY branch: attach, decode, tag, detach, release
select_ipc_shm(c, id, release_memory, decodes) ==
    LET c1 == [c EXCEPT !.attached = @ \cup {id},
                        !.events = Append(@, EvLoadBuffer(id))]
        c2 == [c1 EXCEPT !.dfs = Append(@, [tdf |-> id]),
                         !.events = @ \o <<EvDecode(id), EvSetTdf(id)>>,
                         !.ret = Len(c.dfs) + 1]
        c3 == [c2 EXCEPT !.attached = @ \ {id},
                         !.events = Append(@, EvShmdt(id))]
    IN  IF ~decodes
        THEN [c1 EXCEPT !.outcome = DecodeError]
        ELSE IF release_memory
             THEN deallocate_ipc(c3, c3.ret, NotGiven)
             ELSE c3

\* select_ipc with a fault: a transport that is not SHARED_MEMORY is
\* decoded as WIRE
select_ipc_wire_by_default(c, release_memory, transport_method, decodes) ==
    LET id == Len(c.descs) + 1
        c1 == [c EXCEPT !.descs =
                            Append(@, NewDesc(CPU, 0, transport_method)),
                        !.events = Append(@, RpcExecuteDf(id, 0))]
    IN  IF transport_method = SHARED_MEMORY
        THEN select_ipc_shm(c1, id, release_memory, decodes)
        ELSE select_ipc_wire(c1, id, decodes)

select_ipc(c, release_memory, transport_method, decodes) ==
    LET id == Len(c.descs) + 1
        c1 == [c EXCEPT !.descs =
                            Append(@, NewDesc(CPU, 0, transport_method)),
                        !.events = Append(@, RpcExecuteDf(id, 0))]
    IN  IF transport_method = WIRE
        THEN select_ipc_wire(c1, id, decodes)
        ELSE IF transport_method = SHARED_MEMORY
             THEN select_ipc_shm(c1, id, release_memory, decodes)
             ELSE [c1 EXCEPT !.outcome = UnsupportedTransport]

\* The context a call starts from
Ctx == [descs |-> descs, attached |-> attached, dfs |-> dfs,
        events |-> <<>>, outcome |-> Ok, ret |-> NoDf]

\* The state a finished IPC call leaves
IpcDone(c, rec) ==
    /\ descs' = c.descs
    /\ attached' = c.attached
    /\ dfs' = c.dfs
    /\ call' = [rec EXCEPT !.events = c.events, !.outcome = c.outcome,
                           !.ret = c.ret]
    /\ UNCHANGED <<tables, stored, source>>

SelectIpc ==
    \E release_memory \in BOOLEAN, transport_method \in Transports,
       decodes \in BOOLEAN :
        /\ Len(descs) < MaxDesc
        /\ self_tdf' = Len(descs) + 1
        /\ IpcDone(select_ipc(Ctx, release_memory, transport_method, decodes),
                   [NoCall EXCEPT !.op = "select_ipc",
                                  !.release_memory = release_memory,
                                  !.transport_method = transport_method,
                                  !.tdf = Len(descs) + 1])

\* self._tdf is assigned (line 333) only once sql_execute_gdf has answered
SelectIpcGpu ==
    \E device_id \in DeviceIds, release_memory \in BOOLEAN,
       has_cudf \in BOOLEAN :
        /\ Len(descs) < MaxDesc
        /\ self_tdf' = IF has_cudf THEN Len(descs) + 1 ELSE self_tdf
        /\ IpcDone(select_ipc_gpu(Ctx, device_id, release_memory, has_cudf),
                   [NoCall EXCEPT !.op = "select_ipc_gpu",
                                  !.release_memory = release_memory,
                                  !.device_id = device_id,
                                  !.tdf = IF has_cudf THEN Len(descs) + 1
                                          ELSE NoTdf])

\* A release stays within the bound on the RPCs one descriptor receives
MayRelease(df) ==
    get_tdf(dfs, df) # NoTdf => descs[get_tdf(dfs, df)].deallocs < MaxDealloc

DeallocateIpc ==
    \E df \in 0..Len(dfs), device_id \in DeviceIds \cup {NotGiven} :
        /\ MayRelease(df)
        /\ IpcDone(deallocate_ipc(Ctx, df, device_id),
                   [NoCall EXCEPT !.op = "deallocate_ipc", !.df = df,
                                  !.device_id = device_id,
                                  !.tdf = get_tdf(dfs, df)])
        /\ UNCHANGED self_tdf

DeallocateIpcGpu ==
    \E df \in 0..Len(dfs), device_id \in DeviceIds \cup {NotGiven} :
        /\ MayRelease(df)
        /\ IpcDone(deallocate_ipc_gpu(Ctx, df, device_id),
                   [NoCall EXCEPT !.op = "deallocate_ipc_gpu", !.df = df,
                                  !.device_id = device_id,
                                  !.tdf = get_tdf(dfs, df)])
        /\ UNCHANGED self_tdf

\* The context a load call starts from
LoadCtx == [tables |-> tables, stored |-> stored, fail_at |-> 0,
            events |-> <<>>, outcome |-> Ok]

\* The state a finished load call leaves
LoadDone(c, rec) ==
    /\ tables' = c.tables
    /\ stored' = c.stored
    /\ call' = [rec EXCEPT !.events = c.events, !.outcome = c.outcome]

LoadRec(op, table_name) ==
    [NoCall EXCEPT !.op = op, !.table = table_name, !.data = source]

\* A load is tried while the table holds fewer than MaxStored rows
MayLoad(table_name) == Len(stored[table_name]) < MaxStored

CreateTable ==
    \E table_name \in TableNames :
        /\ LoadDone(create_table(LoadCtx, table_name, source),
                    LoadRec("create_table", table_name))
        /\ UNCHANGED <<source, descs, attached, dfs, self_tdf>>

LoadTable ==
    \E table_name \in TableNames, method \in Methods, create \in Creates :
        /\ MayLoad(table_name)
        /\ LoadDone(load_table(LoadCtx, table_name, source, method, create),
                    [LoadRec("load_table", table_name)
                         EXCEPT !.method = method, !.create = create])
        /\ UNCHANGED <<source, descs, attached, dfs, self_tdf>>

LoadTableRowwise ==
    \E table_name \in TableNames :
        /\ MayLoad(table_name)
        /\ LoadDone(load_table_rowwise(LoadCtx, table_name, source),
                    LoadRec("load_table_rowwise", table_name))
        /\ UNCHANGED <<source, descs, attached, dfs, self_tdf>>

\* The budgets tried for a source: one above its size chunks it like its
\* size does, into one batch
Budgets(data) ==
    {b \in 0..MaxChunk : b <= Sum(data.rows) \/ b = 1}

\* A columnar load; the server fails its fail_at-th load request, if any
LoadTableColumnar ==
    \E table_name \in TableNames, chunk_size_bytes \in Budgets(source) :
      \E fail_at \in
            0..Len(build_input_columnar(source, chunk_size_bytes)) :
        /\ MayLoad(table_name)
        /\ LoadDone(load_table_columnar([LoadCtx EXCEPT !.fail_at = fail_at],
                                        table_name, source, chunk_size_bytes),
                    [LoadRec("load_table_columnar", table_name)
                         EXCEPT !.chunk_size_bytes = chunk_size_bytes,
                                !.fail_at = fail_at])
        /\ UNCHANGED <<source, descs, attached, dfs, self_tdf>>

LoadTableArrow ==
    \E table_name \in TableNames :
        /\ MayLoad(table_name)
        /\ LoadDone(load_table_arrow(LoadCtx, table_name, source),
                    LoadRec("load_table_arrow", table_name))
        /\ UNCHANGED <<source, descs, attached, dfs, self_tdf>>

Init ==
    /\ tables \in [TableNames -> {NoTable} \cup (1..MaxCols)]
    /\ stored = [t \in TableNames |-> <<>>]
    /\ source \in Sources
    /\ descs = <<>>
    /\ attached = {}
    /\ dfs = <<>>
    /\ self_tdf = NoTdf
    /\ call = NoCall

\* A connection that runs queries only: the server's tables play no part
InitIpc ==
    /\ tables = [t \in TableNames |-> NoTable]
    /\ stored = [t \in TableNames |-> <<>>]
    /\ source = [kind |-> DataFrame, ncols |-> 1, rows |-> <<>>]
    /\ descs = <<>>
    /\ attached = {}
    /\ dfs = <<>>
    /\ self_tdf = NoTdf
    /\ call = NoCall

NextLoad ==
    \/ CreateTable
    \/ LoadTable
    \/ LoadTableRowwise
    \/ LoadTableColumnar
    \/ LoadTableArrow

\* A connection that loads only
SpecLoad == Init /\ [][NextLoad]_vars

\* The chunked columnar loads: table t1 exists, with the one column of the
\* sources
InitChunk ==
    /\ tables = [t \in TableNames |-> IF t = "t1" THEN 1 ELSE NoTable]
    /\ stored = [t \in TableNames |-> <<>>]
    /\ source \in ChunkSources
    /\ descs = <<>>
    /\ attached = {}
    /\ dfs = <<>>
    /\ self_tdf = NoTdf
    /\ call = NoCall

NextChunk == LoadTableColumnar

SpecChunk == InitChunk /\ [][NextChunk]_vars

NextIpc == SelectIpc \/ SelectIpcGpu \/ DeallocateIpc \/ DeallocateIpcGpu

SpecIpc == InitIpc /\ [][NextIpc]_vars

\* The whole connection.  The load pipeline and the IPC protocol share no
\* state, so the properties below are checked under SpecLoad and SpecIpc.
Next == NextLoad \/ NextIpc

Spec == Init /\ [][Next]_vars

(***************************************************************************)
(* Properties of the IPC retrieval and release protocol.                   *)
(***************************************************************************)
IsFetch == call.op \in {"select_ipc", "select_ipc_gpu"}
IsRelease == call.op \in {"deallocate_ipc", "deallocate_ipc_gpu"}

\* The deallocate_df RPCs of the last call
Deallocs == Pick(call.events, {"deallocate_df"})

\* C1: whenever select_ipc has exited after load_buffer attached the segment,
\* by return or by an exception of the decode, shmdt has been called on the
\* segment and it is no longer attached.
C1_SegmentDetachedOnExit ==
    (call.op = "select_ipc" /\ Count(call.events, {"load_buffer"}) > 0)
        => /\ Count(call.events, {"shmdt"}) > 0
           /\ call.tdf \notin attached

\* C2: no descriptor receives more than one deallocate_df RPC, whatever the
\* sequence of fetches and CPU or GPU releases; a release of a table already
\* released issues no RPC.
C2_ReleasedAtMostOnce ==
    \A id \in 1..Len(descs) : descs[id].deallocs <= 1

\* C6: a deallocate_df RPC carries the device id the caller of the release
\* gave, and the device id of the table's descriptor when no device id was
\* given, as in the release select_ipc_gpu performs for release_memory.
C6_ReleaseOnGivenOrOwnDevice ==
    \A i \in 1..Len(Deallocs) :
        Deallocs[i].device_id =
            IF IsRelease /\ call.device_id # NotGiven
            THEN call.device_id
            ELSE descs[Deallocs[i].tdf].device_id

\* C7: a deallocate_df RPC carries the device kind of the descriptor tagged
\* on the released table, whichever release operation issued it.
C7_KindOfDescriptor ==
    \A i \in 1..Len(Deallocs) :
        Deallocs[i].device_type = descs[Deallocs[i].tdf].device_type

\* C7 (amended): a deallocate_df RPC carries the device kind of the release
\* operation that issued it: CPU from deallocate_ipc (also inside select_ipc),
\* GPU from deallocate_ipc_gpu (also inside select_ipc_gpu), whatever the kind
\* of the descriptor; the release a fetch performs itself carries the kind of
\* its descriptor.
C7_KindOfOperation ==
    \A i \in 1..Len(Deallocs) :
        /\ call.op \in {"deallocate_ipc", "select_ipc"}
               => Deallocs[i].device_type = CPU
        /\ call.op \in {"deallocate_ipc_gpu", "select_ipc_gpu"}
               => Deallocs[i].device_type = GPU
        /\ IsFetch
               => Deallocs[i].device_type = descs[Deallocs[i].tdf].device_type

\* C7 witness: deallocate_ipc has released a table a GPU fetch returned, and
\* deallocate_ipc_gpu has not been the operation
C7_Witness ==
    /\ call.op = "deallocate_ipc"
    /\ call.outcome = Ok
    /\ Len(Deallocs) = 1
    /\ descs[call.tdf].device_type = GPU

\* C8: the table a successful select_ipc returns is tagged with the
\* descriptor of its query, for WIRE as for SHARED_MEMORY.
C8_ReturnedTableTagged ==
    (call.op = "select_ipc" /\ call.outcome = Ok)
        => /\ call.ret # NoDf
           /\ get_tdf(dfs, call.ret) = call.tdf

\* C9: a fetch that returns a table has issued exactly one deallocate_df RPC,
\* for its own descriptor and after the table was created, if release_memory
\* is true, and none if it is false, the descriptor then being unreleased.
C9_ReleaseMemoryHonoured ==
    (IsFetch /\ call.outcome = Ok /\ call.ret # NoDf)
        => IF call.release_memory
           THEN /\ Len(Deallocs) = 1
                /\ Deallocs[1].tdf = call.tdf
                /\ \A i \in Positions(call.events, {"to_pandas"}) :
                       \A j \in Positions(call.events, {"deallocate_df"}) :
                           i < j
           ELSE /\ Len(Deallocs) = 0
                /\ descs[call.tdf].deallocs = 0

(***************************************************************************)
(* Properties of the load pipeline.                                        *)
(***************************************************************************)
\* The kinds of load RPC the last call issued
LoadKinds == {call.events[i].ev : i \in Positions(call.events, LoadRpcs)}

ColumnarKinds == {DataFrame, ArrowTable, RecordBatch}

\* C3: a call that fails a local validation (bad create literal, bad method
\* literal, column count mismatch of a columnar load) has issued no RPC.
C3_ValidationBeforeAnyRpc ==
    call.outcome \in {InvalidCreate, InvalidMethod, SchemaMismatch}
        => call.events = <<>>

\* What the creation policy demands of the call c made when the server's
\* tables were tabs
CreationPolicy(tabs, c) ==
    LET gets == Count(c.events, {"get_tables"})
        creates == Count(c.events, {"create_table"})
    IN  /\ c.create = "infer"
            => /\ gets = 1
               /\ creates = (IF tabs[c.table] = NoTable THEN 1 ELSE 0)
        /\ c.create = "True" => gets = 0 /\ creates = 1
        /\ c.create = "False" => gets = 0 /\ creates = 0
        /\ \A i \in Positions(c.events, {"create_table"}) :
               \A j \in Positions(c.events, LoadRpcs) : i < j

\* C4: load_table with create='infer' queries the table list and issues
\* create_table iff the table is absent from it; with create=True it issues
\* exactly one create_table and no get_tables; with create=False none; and a
\* create_table RPC precedes every load RPC of the call.
C4_CreationPolicy ==
    [][(call'.op = "load_table" /\ call'.create \in {"infer", "True", "False"})
           => CreationPolicy(tables, call')]_vars

\* C4 witness: create='infer' on an absent table has queried the list,
\* created the table and then loaded
C4_Witness ==
    /\ call.op = "load_table"
    /\ call.create = "infer"
    /\ call.outcome = Ok
    /\ Count(call.events, {"get_tables"}) = 1
    /\ Count(call.events, {"create_table"}) = 1
    /\ LoadKinds # {}

\* C5: a load_table call issues load RPCs of exactly one strategy; with
\* method='infer' that is Arrow for a DataFrame, Table or RecordBatch,
\* row-wise for a bare sequence of tuples and columnar for any other source;
\* row-wise is used only for method='rows' or a bare sequence of tuples.
C5_InferFallsBackToColumnar ==
    (call.op = "load_table" /\ call.outcome = Ok)
        => /\ Cardinality(LoadKinds) = 1
           /\ (call.method = "infer" /\ call.data.kind \in ColumnarKinds)
                  => LoadKinds = {"load_table_binary_arrow"}
           /\ (call.method = "infer"
                   /\ call.data.kind \notin ColumnarKinds \cup {Tuples})
                  => LoadKinds = {"load_table_binary_columnar"}
           /\ LoadKinds = {"load_table"}
                  => call.method = "rows" \/ call.data.kind = Tuples

\* C5 (amended): a load_table call issues load RPCs of at most one strategy,
\* and of exactly one if it returns; with method='infer' that is Arrow for a
\* DataFrame, Table or RecordBatch and row-wise for every other source; the
\* columnar strategy is used exactly for method='columnar'.
C5_InferFallsBackToRows ==
    call.op = "load_table"
        => /\ Cardinality(LoadKinds) <= 1
           /\ call.outcome = Ok
                  => /\ Cardinality(LoadKinds) = 1
                     /\ (call.method = "infer"
                             /\ call.data.kind \in ColumnarKinds)
                            => LoadKinds = {"load_table_binary_arrow"}
                     /\ (call.method = "infer"
                             /\ call.data.kind \notin ColumnarKinds)
                            => LoadKinds = {"load_table"}
                     /\ LoadKinds = {"load_table_binary_columnar"}
                            <=> call.method = "columnar"
                     /\ LoadKinds = {"load_table"}
                            <=> \/ call.method = "rows"
                                \/ /\ call.method = "infer"
                                   /\ call.data.kind \notin ColumnarKinds

\* C5 witness: method='infer' has loaded a source that is neither a columnar
\* table nor a sequence of tuples, row-wise
C5_Witness ==
    /\ call.op = "load_table"
    /\ call.outcome = Ok
    /\ call.method = "infer"
    /\ call.data.kind = OtherIterable
    /\ LoadKinds = {"load_table"}

\* The last call is a columnar load into a table the server knows
ColumnarIntoExisting ==
    /\ call.op = "load_table_columnar"
    /\ tables[call.table] # NoTable

\* C10: load_table_columnar fails with SchemaMismatch exactly when the
\* source's column count differs from the table's, and then issues no
\* load_table_binary_columnar RPC.
C10_MismatchOfAnySource ==
    ColumnarIntoExisting
        => /\ call.outcome = SchemaMismatch
                  <=> call.data.ncols # tables[call.table]
           /\ call.outcome = SchemaMismatch
                  => Count(call.events, {"load_table_binary_columnar"}) = 0

\* C10 (amended): for a DataFrame source, load_table_columnar fails with
\* SchemaMismatch exactly when the frame's column count differs from the
\* table's, and then issues no load_table_binary_columnar RPC; a source that
\* is not a DataFrame fails with TypeError before any RPC, whatever its
\* column count.
C10_MismatchOfDataFrame ==
    ColumnarIntoExisting
        => IF call.data.kind = DataFrame
           THEN /\ call.outcome = SchemaMismatch
                       <=> call.data.ncols # tables[call.table]
                /\ call.outcome = SchemaMismatch
                       => Count(call.events,
                                {"load_table_binary_columnar"}) = 0
           ELSE call.outcome = UnknownType /\ call.events = <<>>

\* C10 witness: a columnar load of a DataFrame has been refused for its
\* column count, after the schema lookup and before any load
C10_Witness ==
    /\ ColumnarIntoExisting
    /\ call.data.kind = DataFrame
    /\ call.data.ncols # tables[call.table]
    /\ call.outcome = SchemaMismatch
    /\ call.events = <<RpcGetTableDetails(call.table)>>

(***************************************************************************)
(* Error handling of the method and transport arguments and of the release *)
(* of an untagged frame.                                                   *)
(***************************************************************************)
ValidMethods == {"infer", "arrow", "columnar", "rows"}

\* C11: a load_table call with a method other than 'infer', 'arrow',
\* 'columnar' and 'rows' fails with InvalidMethod and issues no load RPC of
\* any kind; a call with one of the four never fails with InvalidMethod.
C11_InvalidMethodRejected ==
    call.op = "load_table" =>
        IF call.method \in ValidMethods
        THEN call.outcome # InvalidMethod
        ELSE call.outcome = InvalidMethod /\ LoadKinds = {}

\* C12: select_ipc with a transport other than WIRE and SHARED_MEMORY fails
\* with UnsupportedTransport and returns no table: no buffer is attached or
\* decoded and no frame is made.
C12_UnsupportedTransportRejected ==
    (call.op = "select_ipc"
        /\ call.transport_method \notin {WIRE, SHARED_MEMORY}) =>
        /\ call.outcome = UnsupportedTransport
        /\ call.ret = NoDf
        /\ Count(call.events, {"load_buffer", "to_pandas", "set_tdf"}) = 0
        /\ \A df \in 1..Len(dfs) : dfs[df].tdf # call.tdf

\* The case of C12: a select_ipc call with another transport has run, after
\* an earlier fetch made a frame
C12_Witness ==
    /\ call.op = "select_ipc"
    /\ call.transport_method = OTHER_TRANSPORT
    /\ call.outcome = UnsupportedTransport
    /\ Len(dfs) > 0

\* C13: a release of a frame that carries no descriptor tag fails with
\* NoDescriptor and issues no deallocate_df RPC (it issues no event at all).
C13_UntaggedReleaseRejected ==
    (IsRelease /\ call.tdf = NoTdf) =>
        call.outcome = NoDescriptor /\ call.events = <<>>

\* The case of C13: both releases have been tried on a frame no fetch made
\* (handle 0), while the connection holds a descriptor from an earlier fetch
C13_Witness ==
    /\ IsRelease
    /\ call.df = NoDf
    /\ call.tdf = NoTdf
    /\ call.outcome = NoDescriptor
    /\ self_tdf # NoTdf

(***************************************************************************)
(* Properties of the columnar load and of its batches.                     *)
(***************************************************************************)
IsColumnarLoad == call.op = "load_table_columnar"

\* The batches build_input_columnar gave the last call
Planned == build_input_columnar(call.data, call.chunk_size_bytes)

\* The rows of the load_table_binary_columnar RPCs of the last call, one
\* entry per RPC, in the order the RPCs were issued
ColumnarSent ==
    LET rpcs == Pick(call.events, {"load_table_binary_columnar"})
    IN  [i \in 1..Len(rpcs) |-> rpcs[i].rows]

\* The concatenation of a sequence of batches
RECURSIVE Flatten(_)
Flatten(batches) ==
    IF batches = <<>> THEN <<>>
    ELSE Head(batches) \o Flatten(Tail(batches))

\* The last call reached its loop over the batches
ReachedBatches ==
    /\ IsColumnarLoad
    /\ call.data.kind = DataFrame
    /\ tables[call.table] = call.data.ncols

\* C14: a columnar load issues one load_table_binary_columnar RPC per batch
\* of the chunker, one after another and in the order of the batches, which
\* is the row order of the source: the RPCs issued are the batches 1..k for
\* some k, all of them when the call returns, and RPC k+1 exists only if
\* RPC k was answered without error.
C14_OneRpcPerBatchInOrder ==
    ReachedBatches =>
        /\ Len(ColumnarSent) <= Len(Planned)
        /\ ColumnarSent = SubSeq(Planned, 1, Len(ColumnarSent))
        /\ call.outcome = Ok => ColumnarSent = Planned
        /\ call.outcome = Ok => Flatten(ColumnarSent) = RowIds(call.data)
        /\ call.fail_at \in 1..Len(Planned) =>
               Len(ColumnarSent) = call.fail_at
        /\ \A i \in 2..Len(call.events) :
               /\ call.events[i].ev = "load_table_binary_columnar"
               /\ call.events[i].tab = call.table

\* The case of C14: a columnar load of three rows returned after three
\* batches
C14_Witness ==
    /\ ReachedBatches
    /\ call.outcome = Ok
    /\ Len(call.data.rows) = 3
    /\ Len(ColumnarSent) = 3

\* The rows of the first n batches
RowsOfFirst(batches, n) == Flatten(SubSeq(batches, 1, n))

\* C15: when the server fails the RPC of batch k, load_table_columnar ends
\* with that error; the RPCs of the call are those of batches 1..k, each
\* issued once (none after k, none twice), nothing else is sent to undo
\* them, and the rows of batches 1..k-1 stay in the table.
C15_FailureIsTerminal ==
    [][(call'.fail_at > 0 /\ ReachedBatches') =>
          LET k == call'.fail_at
              batches == Planned'
          IN  /\ call'.outcome = ServerError
              /\ ColumnarSent' = SubSeq(batches, 1, k)
              /\ Count(call'.events, LoadRpcs) = k
              /\ Len(call'.events) = 1 + k
              /\ stored' = [stored EXCEPT ![call'.table] =
                                @ \o RowsOfFirst(batches, k - 1)]]_vars

\* The case of C15: the second of three batches failed and the first stays
\* in the table
C15_Witness ==
    /\ ReachedBatches
    /\ Len(Planned) = 3
    /\ call.fail_at = 2
    /\ call.outcome = ServerError
    /\ stored[call.table] = Planned[1]

\* C16: with a budget B > 0, every batch sent has a serialized size of at
\* most B, except a batch of a single row whose own size exceeds B.
C16_BatchWithinBudget ==
    (ReachedBatches /\ call.chunk_size_bytes > 0) =>
        \A i \in 1..Len(ColumnarSent) :
            \/ BatchCost(call.data, ColumnarSent[i]) <= call.chunk_size_bytes
            \/ Len(ColumnarSent[i]) = 1

\* C17: with a budget B > 0, the batches partition the rows of the source:
\* their row counts sum to N and their concatenation in send order is the
\* source's rows in their order (none dropped, duplicated or moved; a row
\* larger than B is in a batch); no batch is empty unless the source is.
C17_BatchesPartitionRows ==
    (ReachedBatches /\ call.chunk_size_bytes > 0) =>
        /\ Flatten(Planned) = RowIds(call.data)
        /\ Sum([i \in 1..Len(Planned) |-> Len(Planned[i])])
               = Len(call.data.rows)
        /\ call.data.rows # <<>> => \A i \in 1..Len(Planned) : Planned[i] # <<>>
        /\ call.fail_at = 0 =>
               /\ call.outcome = Ok
               /\ Flatten(ColumnarSent) = RowIds(call.data)

\* The case of C17: a load of several batches returned, and one of its rows
\* is larger than the budget
C17_Witness ==
    /\ ReachedBatches
    /\ call.chunk_size_bytes > 0
    /\ call.outcome = Ok
    /\ Len(ColumnarSent) > 1
    /\ \E i \in 1..Len(call.data.rows) :
           call.data.rows[i] > call.chunk_size_bytes

\* C18: with chunk_size_bytes = 0 the frame is not chunked: the chunker gives
\* one batch and the call sends all rows in one load_table_binary_columnar
\* RPC, for every row count.
C18_ZeroBudgetOneBatch ==
    (ReachedBatches /\ call.chunk_size_bytes = 0) =>
        /\ Len(Planned) = 1
        /\ ColumnarSent = <<RowIds(call.data)>>

\* The case of C18: a frame of three rows was loaded with budget 0
C18_Witness ==
    /\ ReachedBatches
    /\ call.chunk_size_bytes = 0
    /\ call.outcome = Ok
    /\ Len(call.data.rows) = 3
    /\ Len(ColumnarSent) = 1

(***************************************************************************)
(* Properties of the implicit creation and of the row-wise load.           *)
(***************************************************************************)
\* The load RPCs of the last call
Loads == Pick(call.events, LoadRpcs)

\* C19: load_table of a DataFrame with create='infer' into a table that does
\* not exist issues get_tables, then exactly one create_table built from the
\* frame's columns, then its load, whatever the valid method; when it
\* returns, the table has the frame's columns and holds exactly the frame's
\* rows, each once, in order.
C19_InferCreatesThenLoads ==
    [][(/\ call'.op = "load_table"
        /\ call'.create = "infer"
        /\ call'.method \in ValidMethods
        /\ call'.data.kind = DataFrame
        /\ tables[call'.table] = NoTable) =>
           /\ Count(call'.events, {"create_table"}) = 1
           /\ SubSeq(call'.events, 1, 2) =
                  <<RpcGetTables,
                    RpcCreateTable(call'.table, call'.data.ncols)>>
           /\ call'.outcome = Ok
           /\ Len(Loads') = 1
           /\ tables' = [tables EXCEPT ![call'.table] = call'.data.ncols]
           /\ stored' = [stored EXCEPT ![call'.table] = RowIds(call'.data)]
      ]_vars

\* The case of C19: the default call has created the table and loaded a
\* frame of two rows into it
C19_Witness ==
    /\ call.op = "load_table"
    /\ call.create = "infer"
    /\ call.method = "infer"
    /\ call.data.kind = DataFrame
    /\ Count(call.events, {"create_table"}) = 1
    /\ call.outcome = Ok
    /\ stored[call.table] = <<1, 2>>

IsRowwiseLoad ==
    \/ call.op = "load_table_rowwise"
    \/ call.op = "load_table" /\ call.method = "rows"

\* C20: a row-wise load that reaches its load issues exactly one load_table
\* RPC, which carries every row of the source once, in input order.
C20_RowwiseCarriesEveryRow ==
    (IsRowwiseLoad /\ call.outcome = Ok) =>
        Loads = <<RpcLoadTable(call.table, RowIds(call.data))>>

(***************************************************************************)
(* Properties of the descriptor a release names and of the order of the    *)
(* steps of a fetch.                                                       *)
(***************************************************************************)
\* C21: a release of a tagged frame issues one deallocate_df RPC, for the
\* descriptor the frame is tagged with, whatever descriptor the connection
\* holds in self._tdf and in whichever order frames are released.
C21_ReleaseByTableTag ==
    (IsRelease /\ get_tdf(dfs, call.df) # NoTdf) =>
        /\ Len(Deallocs) = 1
        /\ Deallocs[1].tdf = dfs[call.df].tdf

\* The case of C21: two shared-memory fetches without release gave frames 1
\* and 2; frame 2 was released, then frame 1, while self._tdf holds the
\* descriptor of the second query
C21_Witness ==
    /\ call.op = "deallocate_ipc"
    /\ Len(dfs) = 2
    /\ \A df \in 1..2 :
           /\ dfs[df].tdf = df
           /\ descs[df].transport = SHARED_MEMORY
           /\ descs[df].deallocs = 1
    /\ call.df = 1
    /\ self_tdf = 2
    /\ Deallocs[1].tdf = 1

\* C22: in a shared-memory select_ipc with release_memory=True the
\* deallocate_df RPC follows the shmdt of the descriptor's segment, and in no
\* state is a descriptor deallocated on the server while the client is
\* attached to its segment.
C22_DetachedBeforeDeallocated ==
    /\ \A id \in 1..Len(descs) : descs[id].deallocs > 0 => id \notin attached
    /\ call.op = "select_ipc" =>
           \A i \in Positions(call.events, {"deallocate_df"}) :
               \E j \in Positions(call.events, {"shmdt"}) :
                   /\ j < i
                   /\ call.events[j].tdf = call.events[i].tdf

\* The case of C22: a shared-memory fetch with release_memory=True has
\* returned its frame and released its descriptor
C22_Witness ==
    /\ call.op = "select_ipc"
    /\ call.transport_method = SHARED_MEMORY
    /\ call.release_memory
    /\ call.outcome = Ok
    /\ Len(Deallocs) = 1
    /\ descs[call.tdf].deallocs = 1
    /\ call.tdf \notin attached

\* C23: a select_ipc call that rejects its transport has issued no
\* sql_execute_df RPC: the server holds no descriptor of the call, and the
\* connection's self._tdf is not the call's.
C23_RejectedBeforeExecute ==
    (call.op = "select_ipc" /\ call.outcome = UnsupportedTransport) =>
        /\ Count(call.events, {"sql_execute_df"}) = 0
        /\ Len(descs) < call.tdf
        /\ self_tdf # call.tdf

==============================================================================
